---------------------------- MODULE Spec2Model ----------------------------
(***************************************************************************)
(* A model of reddit-scraper (src/src/index.js): the two entry points      *)
(* download and scrape, the URL helpers they share, and the comment        *)
(* renderer formatCommentsFile.                                            *)
(*                                                                         *)
(* Strings are sequences of tokens.  A token is a run of characters that   *)
(* none of the modelled string operations splits: "https://", "www.",      *)
(* ".json", "/", "?", "&", "a=1", ...  String operations of the source     *)
(* (trim, endsWith, replace, the regular expressions, the WHATWG URL       *)
(* parser and serializer) are operators on these sequences.                *)
(*                                                                         *)
(* Three specifications share the module:                                  *)
(*   Spec        one call of scrape or download, one step per stretch of   *)
(*               code between two awaits, the network answering            *)
(*               nondeterministically;                                     *)
(*   SpecUrl     the pure URL functions applied to every bounded URL;      *)
(*   SpecRender  formatCommentsFile applied to every bounded listing.      *)
(***************************************************************************)
EXTENDS Integers, Sequences, FiniteSets, TLC

VARIABLES
    \* ---- Spec: one call of scrape / download
    fn,          \* "scrape" | "download": the entry point called
    mode,        \* options.mode as passed by the caller
    inputUrl,    \* redditPostUrl as passed by the caller (token string)
    pc,          \* where the async function is suspended, or how it ended
    net,         \* network history: requests issued and responses received
    post,        \* the parsed post record, NoPost before the parse
    dirCreated,  \* whether outDir has been created (fs.mkdirSync)
    files,       \* artifact files written (fs.writeFileSync)
    result,      \* scrape: fields present in the result object
    returned,    \* what the call resolved to, "none" while running / on throw
    error,       \* the error the call rejected with, "none" otherwise
    \* ---- SpecUrl: the pure URL functions
    uUrl,        \* the URL string under test
    uPc,         \* "input" | "normalized" | "classified"
    uOut,        \* normalization result (token string, or Invalid)
    uIsImage,    \* classification result
    \* ---- SpecRender: formatCommentsFile
    rListing,    \* the comment listing passed in
    rPc,         \* "input" | "done" | "error"
    rText        \* the returned text

pipeVars   == <<fn, mode, inputUrl, pc, net, post, dirCreated, files, result,
                returned, error>>
urlVars    == <<uUrl, uPc, uOut, uIsImage>>
renderVars == <<rListing, rPc, rText>>
vars       == <<pipeVars, urlVars, renderVars>>

(***************************************************************************)
(* Bounds of the model.                                                    *)
(***************************************************************************)
MaxUrlLen == 3     \* tokens after the host in a URL of SpecUrl
MaxNodes  == 3     \* nodes in a comment listing of SpecRender

(***************************************************************************)
(* Token strings.                                                          *)
(***************************************************************************)
RECURSIVE SeqsUpTo(_, _)
SeqsUpTo(S, n) ==
    IF n = 0 THEN {<<>>}
    ELSE LET shorter == SeqsUpTo(S, n - 1)
         IN  shorter \cup {Append(s, x) : s \in {t \in shorter : Len(t) = n - 1}, x \in S}

Last(s) == s[Len(s)]

\* String.prototype.endsWith on a token string, for a suffix that is one token.
EndsWith(s, tok) == Len(s) > 0 /\ Last(s) = tok

\* index of the first token of s that is in stops, Len(s)+1 when there is none
RECURSIVE FirstIn(_, _, _)
FirstIn(s, stops, i) ==
    IF i > Len(s) THEN Len(s) + 1
    ELSE IF s[i] \in stops THEN i
    ELSE FirstIn(s, stops, i + 1)

\* String.prototype.trim
RECURSIVE Trim(_)
Trim(s) ==
    IF s = <<>> THEN s
    ELSE IF Head(s) = " " THEN Trim(Tail(s))
    ELSE IF Last(s) = " " THEN Trim(SubSeq(s, 1, Len(s) - 1))
    ELSE s

\* ensureJsonSuffix: the suffix test is on the whole string, and the regular
\* expression /\/?$/ matches one optional trailing slash of the whole string.
ensureJsonSuffix(url) ==
    IF EndsWith(url, ".json") THEN url
    ELSE IF EndsWith(url, "/") THEN Append(SubSeq(url, 1, Len(url) - 1), ".json")
    ELSE Append(url, ".json")

(***************************************************************************)
(* new URL(s): the WHATWG parser on a token string.  The scheme is the     *)
(* first token; the hostname runs to the first "/", "?" or "#"; the path   *)
(* to the first "?" or "#"; the query to the first "#"; the rest is the    *)
(* fragment.  An empty path of an https URL is "/".  A string without      *)
(* scheme or host is not a URL: the constructor throws (ok = FALSE).       *)
(***************************************************************************)
Invalid == <<"TypeError: Invalid URL">>

ParseURL(s) ==
    LET hEnd == FirstIn(s, {"/", "?", "#"}, 2)
        pEnd == FirstIn(s, {"?", "#"}, hEnd)
        qEnd == FirstIn(s, {"#"}, pEnd)
        rawPath == SubSeq(s, hEnd, pEnd - 1)
    IN  IF Len(s) < 2 \/ s[1] # "https://" \/ hEnd = 2
        THEN [ok |-> FALSE, scheme |-> "", hostname |-> <<>>, pathname |-> <<>>,
              search |-> <<>>, hash |-> <<>>]
        ELSE [ok |-> TRUE, scheme |-> s[1],
              hostname |-> SubSeq(s, 2, hEnd - 1),
              pathname |-> IF rawPath = <<>> THEN <<"/">> ELSE rawPath,
              search   |-> SubSeq(s, pEnd, qEnd - 1),
              hash     |-> SubSeq(s, qEnd, Len(s))]

\* URL.prototype.toString
Href(u) == <<u.scheme>> \o u.hostname \o u.pathname \o u.search \o u.hash

\* the query split at "&" into its parameters (empty ones dropped), as
\* URLSearchParams parses it; q is the query without its leading "?"
RECURSIVE QueryParams(_)
QueryParams(q) ==
    IF q = <<>> THEN <<>>
    ELSE LET cut == FirstIn(q, {"&"}, 1)
             first == SubSeq(q, 1, cut - 1)
             rest == QueryParams(SubSeq(q, cut + 1, Len(q)))
         IN  IF first = <<>> THEN rest ELSE <<first>> \o rest

KeyValueTokens == {"a=1", "raw_json=0", "raw_json=1"}

\* u.searchParams.has("raw_json"): a parameter whose name is raw_json
HasRawJson(u) ==
    \E i \in DOMAIN QueryParams(Tail(u.search)) :
        QueryParams(Tail(u.search))[i][1] \in {"raw_json=0", "raw_json=1"}

\* application/x-www-form-urlencoded serialization of one token
FormEncode(tok) ==
    CASE tok = "/" -> "%2F"
      [] tok = "?" -> "%3F"
      [] OTHER -> tok

\* ... of one parameter: a parameter without "=" is a name with an empty value
SerializeParam(p) ==
    LET enc == [i \in DOMAIN p |-> FormEncode(p[i])]
    IN  IF \E i \in DOMAIN p : p[i] \in KeyValueTokens THEN enc ELSE Append(enc, "=")

RECURSIVE SerializeParams(_)
SerializeParams(ps) ==
    IF ps = <<>> THEN <<>>
    ELSE IF Len(ps) = 1 THEN SerializeParam(ps[1])
    ELSE SerializeParam(ps[1]) \o <<"&">> \o SerializeParams(Tail(ps))

\* withRawJsonParam: searchParams.set re-serializes the whole query; without
\* the set the query is left as parsed.
withRawJsonParam(url) ==
    LET u == ParseURL(url)
        ps == IF u.search = <<>> THEN <<>> ELSE QueryParams(Tail(u.search))
    IN  IF ~u.ok THEN Invalid
        ELSE IF u.search # <<>> /\ HasRawJson(u) THEN Href(u)
        ELSE Href([u EXCEPT !.search =
                      <<"?">> \o SerializeParams(Append(ps, <<"raw_json=1">>))])

\* the regular expression /\.(jpg|jpeg|png|gif)$/i, tested on the whole string
LowerExt(tok) ==
    CASE tok = ".JPG" -> ".jpg"
      [] tok = ".PNG" -> ".png"
      [] OTHER -> tok

ImageExts == {".jpg", ".jpeg", ".png", ".gif"}

IsImageUrl(url) == Len(url) > 0 /\ LowerExt(Last(url)) \in ImageExts

(***************************************************************************)
(* Comment listings.  An entry of a listing is null or an object          *)
(* {kind, data}; data, when present, has author, score, body and replies.  *)
(* replies is a listing object {data: {children: [...]}} ("listing"), the  *)
(* empty string Reddit sends for a comment without replies ("string"), or  *)
(* an object without a children array ("nochildren").                      *)
(***************************************************************************)
NoReplies(shape) == [shape |-> shape, children |-> <<>>]

NullItem ==
    [null |-> TRUE, kind |-> "", hasData |-> FALSE, author |-> "",
     score |-> [num |-> FALSE, val |-> "0"], body |-> <<>>,
     replies |-> NoReplies("string")]

\* the entries without their replies
Shells ==
    { [null |-> FALSE, kind |-> "t1", hasData |-> TRUE, author |-> "alice",
       score |-> [num |-> TRUE, val |-> "5"], body |-> <<"hi", "<CRLF>", "there">>],
      [null |-> FALSE, kind |-> "t1", hasData |-> TRUE, author |-> "",
       score |-> [num |-> FALSE, val |-> "0"], body |-> <<>>],
      [null |-> FALSE, kind |-> "more", hasData |-> TRUE, author |-> "bob",
       score |-> [num |-> TRUE, val |-> "-1"], body |-> <<"x", "<LF>">>] }

WithReplies(shell, r) ==
    [null |-> shell.null, kind |-> shell.kind, hasData |-> shell.hasData,
     author |-> shell.author, score |-> shell.score, body |-> shell.body,
     replies |-> r]

\* an object entry without a data record
NoDataItem ==
    [null |-> FALSE, kind |-> "t1", hasData |-> FALSE, author |-> "",
     score |-> [num |-> FALSE, val |-> "0"], body |-> <<>>,
     replies |-> NoReplies("string")]

\* the entries without a reply: null, without data, with an empty reply
\* listing, and (the deleted comment) with each shape of replies that is no
\* listing
LeafItems ==
    {NullItem, NoDataItem}
    \cup {WithReplies(sh, NoReplies("listing")) : sh \in Shells}
    \cup {WithReplies(sh, NoReplies(shape)) :
            sh \in {x \in Shells : x.kind = "t1" /\ x.author = ""},
            shape \in {"string", "nochildren"}}

\* the listings (arrays of entries) of exactly n entries, nested ones counted
RECURSIVE Forests(_)
Forests(n) ==
    IF n = 0 THEN {<<>>}
    ELSE UNION { LET firsts ==
                     IF k = 1
                     THEN LeafItems
                     ELSE {WithReplies(sh, [shape |-> "listing", children |-> c]) :
                                  sh \in Shells, c \in Forests(k - 1)}
                 IN  {<<f>> \o rest : f \in firsts, rest \in Forests(n - k)}
               : k \in 1..n }

ForestsUpTo(n) == UNION {Forests(k) : k \in 0..n}

\* what formatCommentsFile is handed as `listing`
ArrayListing(items) == [shape |-> "array", items |-> items]
AbsentListing == [shape |-> "absent", items |-> <<>>]   \* undefined / null
ObjectListing == [shape |-> "object", items |-> <<>>]   \* truthy, not iterable

(***************************************************************************)
(* formatCommentsFile (lines 75-103).  A line is a token string; " " is    *)
(* one space.                                                              *)
(***************************************************************************)
RECURSIVE Repeat(_, _)
Repeat(s, n) == IF n = 0 THEN <<>> ELSE s \o Repeat(s, n - 1)

\* line 82: item.kind !== "t1" skips the entry
IsCommentMutant(item) == TRUE
IsComment(item) == item.kind = "t1"

\* line 84: "  ".repeat(depth)
Indent(depth) == Repeat(<<" ", " ">>, depth)

\* line 87: every line terminator becomes "\n"
NormalizeNewlines(body) ==
    [i \in DOMAIN body |-> IF body[i] \in {"<CRLF>", "<CR>", "<LF>"} THEN "<LF>" ELSE body[i]]

\* line 90: body.split("\n")
RECURSIVE SplitLines(_)
SplitLines(body) ==
    LET cut == FirstIn(body, {"<LF>"}, 1)
    IN  IF cut > Len(body) THEN <<body>>
        ELSE <<SubSeq(body, 1, cut - 1)>> \o SplitLines(SubSeq(body, cut + 1, Len(body)))

\* lines 83-95: the lines one comment entry pushes
CommentLines(item, depth) ==
    LET author == IF item.hasData /\ item.author # ""
                  THEN <<"u/", item.author>> ELSE <<"[deleted]">>
        score  == IF item.hasData /\ item.score.num THEN item.score.val ELSE "0"
        body   == IF item.hasData THEN NormalizeNewlines(item.body) ELSE <<>>
        bodyLines == IF body = <<>> THEN <<>> ELSE SplitLines(body)
    IN  <<Indent(depth) \o <<"- ">> \o author \o <<" [", score, "]">>>>
        \o [i \in DOMAIN bodyLines |-> Indent(depth) \o <<" ", " ">> \o bodyLines[i]]
        \o << <<>> >>

\* line 96: c.replies && c.replies.data && Array.isArray(c.replies.data.children)
HasReplyArray(item) == item.hasData /\ item.replies.shape = "listing"

\* lines 80-100: walk; reading item.kind of a null entry throws a TypeError,
\* which leaves walk and formatCommentsFile
RECURSIVE walk(_, _)
walk(children, depth) ==
    IF children = <<>> THEN [threw |-> FALSE, lines |-> <<>>]
    ELSE LET item == Head(children)
             rest == walk(Tail(children), depth)
         IN  IF item.null THEN [threw |-> TRUE, lines |-> <<>>]
             ELSE IF ~IsComment(item) THEN rest
             ELSE LET sub == IF HasReplyArray(item)
                             THEN walk(item.replies.children, depth + 1)
                             ELSE [threw |-> FALSE, lines |-> <<>>]
                  IN  [threw |-> sub.threw \/ rest.threw,
                       lines |-> CommentLines(item, depth) \o sub.lines \o rest.lines]

\* line 102: lines.join("\n")
RECURSIVE JoinLines(_)
JoinLines(lines) ==
    IF lines = <<>> THEN <<>>
    ELSE IF Len(lines) = 1 THEN lines[1]
    ELSE lines[1] \o <<"<LF>">> \o JoinLines(Tail(lines))

Title == "T"

\* lines 75-103; `children || []` takes an absent listing as empty, and
\* for...of over a truthy value that is not iterable throws
formatCommentsFile(title, listing) ==
    LET header == << <<"Comments for: ", title>>, <<>> >>
        w == IF listing.shape = "absent" THEN walk(<<>>, 0) ELSE walk(listing.items, 0)
    IN  IF listing.shape = "object" \/ w.threw
        THEN [threw |-> TRUE, text |-> <<>>]
        ELSE [threw |-> FALSE, text |-> JoinLines(header \o w.lines)]

(***************************************************************************)
(* SpecUrl: every URL https://www.reddit.com/p<rest>, rest of at most      *)
(* MaxUrlLen tokens, is normalized (download line 25, scrape line 155) or  *)
(* classified (download line 45, scrape line 198).                         *)
(***************************************************************************)
UrlAlphabet == {"/", "p", ".json", "?", "&", "a=1", "flag", "raw_json=0",
                "#", ".JPG", ".png", ".html"}

UrlInputs ==
    {<<"https://", "www.", "reddit.com", "/", "p">> \o r : r \in SeqsUpTo(UrlAlphabet, MaxUrlLen)}

PipeIdle ==
    /\ fn = "none" /\ mode = "absent" /\ inputUrl = <<>> /\ pc = "idle"
    /\ net = <<>> /\ post = [present |-> FALSE] /\ dirCreated = FALSE
    /\ files = {} /\ result = {} /\ returned = "none"
    /\ error = [msg |-> "none", status |-> 0]

UrlIdle == uUrl = <<>> /\ uPc = "idle" /\ uOut = <<>> /\ uIsImage = FALSE

RenderIdle == rListing = <<>> /\ rPc = "idle" /\ rText = <<>>

InitUrl ==
    /\ uUrl \in UrlInputs /\ uPc = "input" /\ uOut = <<>> /\ uIsImage = FALSE
    /\ PipeIdle /\ RenderIdle

Normalize ==
    /\ uPc = "input"
    /\ uOut' = withRawJsonParam(ensureJsonSuffix(uUrl))
    /\ uPc' = "normalized"
    /\ UNCHANGED <<uUrl, uIsImage, pipeVars, renderVars>>

Classify ==
    /\ uPc = "input"
    /\ uIsImage' = IsImageUrl(uUrl)
    /\ uPc' = "classified"
    /\ UNCHANGED <<uUrl, uOut, pipeVars, renderVars>>

NextUrl == Normalize \/ Classify

SpecUrl == InitUrl /\ [][NextUrl]_vars

(***************************************************************************)
(* SpecRender: formatCommentsFile on every listing of at most MaxNodes     *)
(* entries, on an absent listing and on one that is not an array.          *)
(***************************************************************************)
RenderInputs ==
    {ArrayListing(f) : f \in ForestsUpTo(MaxNodes)} \cup {AbsentListing, ObjectListing}

InitRender ==
    /\ rListing \in RenderInputs /\ rPc = "input" /\ rText = <<>>
    /\ PipeIdle /\ UrlIdle

RenderReturns ==
    /\ rPc = "input"
    /\ ~formatCommentsFile(Title, rListing).threw
    /\ rText' = formatCommentsFile(Title, rListing).text
    /\ rPc' = "done"
    /\ UNCHANGED <<rListing, pipeVars, urlVars>>

RenderThrows ==
    /\ rPc = "input"
    /\ formatCommentsFile(Title, rListing).threw
    /\ rPc' = "error"
    /\ UNCHANGED <<rListing, rText, pipeVars, urlVars>>

NextRender == RenderReturns \/ RenderThrows

SpecRender == InitRender /\ [][NextRender]_vars

(***************************************************************************)
(* scrape and download (Spec).                                             *)
(***************************************************************************)
RecognizedModes == {"image", "video", "text", "full_media", "comments", "all"}

\* options.mode as the caller may pass it: a recognized value, nothing
\* ("absent": undefined or null), or a value that is not recognized
ModeInputs == RecognizedModes \cup {"absent", "gallery"}

\* line 150: options.mode ?? "image"
EffectiveModeMutant(m) == m
EffectiveMode(m) == IF m = "absent" THEN "image" ELSE m

SelectsText(m)     == m \in {"text", "full_media", "all"}      \* line 177
SelectsImage(m)    == m \in {"image", "full_media", "all"}     \* line 196
SelectsVideo(m)    == m \in {"video", "full_media", "all"}     \* line 214
SelectsCommentsMutant(m) == m \in {"comments", "full_media", "all"}
SelectsComments(m) == m \in {"comments", "all"}                \* line 229

\* lines 115-121
defaultHeaders ==
    [UserAgent |-> "Mozilla/5.0 (Windows NT 10.0; Win64; x64) Chrome/124.0.0.0",
     Accept |-> "application/json,text/plain,*/*"]
\* fetch(url) without an init object
NoHeaders == [UserAgent |-> "", Accept |-> ""]

\* Response.ok
ResOkMutant(status) == TRUE
ResOk(status) == status \in 200..299

\* lines 30, 157: res.status === 403
NeedsFallback(status) == status = 403

\* lines 123-131
switchSubdomainMutant(url) == url
switchSubdomain(url) ==
    LET u == ParseURL(url)
    IN  IF Head(u.hostname) = "old."
        THEN Href([u EXCEPT !.hostname = <<"www.">> \o Tail(u.hostname)])
        ELSE IF Head(u.hostname) = "www."
        THEN Href([u EXCEPT !.hostname = <<"old.">> \o Tail(u.hostname)])
        ELSE Href(u)

\* lines 133-138: the secure field first, then the plain one; <<>> is null
getRedditVideoUrl(p) ==
    IF p.secure_video # <<>> THEN p.secure_video ELSE p.media_video

\* lines 40, 169: post.url_overridden_by_dest || post.url
ImageUrlOf(p) ==
    IF p.url_overridden_by_dest # <<>> THEN p.url_overridden_by_dest ELSE p.url

\* lines 45-65: which medium download fetches
DownloadTargetMutant(p) ==
    IF getRedditVideoUrl(p) # <<>> THEN "video"
    ELSE IF ImageUrlOf(p) # <<>> /\ IsImageUrl(ImageUrlOf(p)) THEN "image"
    ELSE "none"
DownloadTarget(p) ==
    IF ImageUrlOf(p) # <<>> /\ IsImageUrl(ImageUrlOf(p)) THEN "image"
    ELSE IF getRedditVideoUrl(p) # <<>> THEN "video"
    ELSE "none"

(***************************************************************************)
(* The environment: what the caller passes and what the network answers.   *)
(***************************************************************************)
InputUrls ==
    { <<>>,                                                   \* "", undefined
      <<" ">>,                                                \* whitespace
      <<"www.", "reddit.com", "/", "p">>,                     \* no scheme
      <<" ", "https://", "old.", "reddit.com", "/", "p", "/", " ">>,
      <<"https://", "www.", "reddit.com", "/", "p">>,
      <<"https://", "reddit.com", "/", "p", ".json">> }

Statuses == {200, 403, 404}

NoPost == [present |-> FALSE]

Posts ==
    [ present : {TRUE},
      from : {0},
      url_overridden_by_dest :
          { <<>>, <<"https://", "i.redd.it", "/", "img", ".JPG", "?", "x=1">> },
      url : { <<>>,
              <<"https://", "i.redd.it", "/", "img", ".jpg">>,
              <<"https://", "example.com", "/", "page", ".html">>,
              <<"/", "r", "/", "pic", ".png">> },
      secure_video : { <<>>, <<"https://", "v.redd.it", "/", "s", "/", "DASH_720.mp4">> },
      media_video  : { <<>>, <<"https://", "v.redd.it", "/", "m", "/", "DASH_480.mp4">> },
      selftext : {"", "body"},
      comments : { ArrayListing(<<>>),
                   ArrayListing(<<WithReplies(CHOOSE sh \in Shells : sh.author = "alice",
                                              NoReplies("string"))>>),
                   ArrayListing(<<NullItem>>) } ]

\* the JSON body of the metadata response: one with a post record, one
\* whose array[0].data.children[0].data is absent, and one on which the
\* parse or the property chain throws (not JSON, null, children missing)
Bodies ==
    {[shape |-> "post", post |-> q] : q \in Posts}
    \cup {[shape |-> sh, post |-> NoPost] : sh \in {"nopost", "throws"}}

Req(kind, url, headers) ==
    [ev |-> "request", kind |-> kind, url |-> url, headers |-> headers,
     status |-> 0, body |-> "none"]
Resp(kind, status, body) ==
    [ev |-> "response", kind |-> kind, url |-> <<>>, headers |-> NoHeaders,
     status |-> status, body |-> body]
Rejected(kind) ==
    [ev |-> "rejected", kind |-> kind, url |-> <<>>, headers |-> NoHeaders,
     status |-> 0, body |-> "none"]

NoError == [msg |-> "none", status |-> 0]
Err(msg, status) == [msg |-> msg, status |-> status]

TextFile(p) ==      \* lines 181-191
    [art |-> "text",
     content |-> <<"header", IF p.selftext # "" THEN p.selftext ELSE "(no text body)">>]
MediaFile(art) == [art |-> art, content |-> <<"bytes">>]
CommentsFile(text) == [art |-> "comments", content |-> text]

(***************************************************************************)
(* One step of the call: the code from one await to the next.              *)
(***************************************************************************)
Finish(netv, filesv, resultv, pcv, retv, errv) ==
    /\ net' = netv /\ files' = filesv /\ result' = resultv
    /\ pc' = pcv /\ returned' = retv /\ error' = errv

\* lines 229-237
ScrapeComments(p, m, netv, filesv, resultv) ==
    LET r == formatCommentsFile(Title, p.comments)
    IN  IF ~SelectsComments(m)
        THEN Finish(netv, filesv, resultv, "done", "result", NoError)
        ELSE IF r.threw
        THEN Finish(netv, filesv, resultv, "error", "none", Err("TypeError", 0))
        ELSE Finish(netv, filesv \cup {CommentsFile(r.text)},
                    resultv \cup {"commentsPath"}, "done", "result", NoError)

\* lines 213-220, up to the await of the video fetch
ScrapeVideo(p, m, netv, filesv, resultv) ==
    LET v == getRedditVideoUrl(p)
    IN  IF SelectsVideo(m) /\ v # <<>>
        THEN IF ~ParseURL(v).ok
             THEN Finish(netv, filesv, resultv, "error", "none", Err("TypeError", 0))
             ELSE Finish(Append(netv, Req("video", v, NoHeaders)), filesv, resultv,
                         "video", "none", NoError)
        ELSE ScrapeComments(p, m, netv, filesv, resultv)

\* lines 195-204, up to the await of the image fetch
ScrapeImage(p, m, netv, filesv, resultv) ==
    LET i == ImageUrlOf(p)
    IN  IF SelectsImage(m) /\ i # <<>> /\ IsImageUrl(i)
        THEN IF ~ParseURL(i).ok
             THEN Finish(netv, filesv, resultv, "error", "none", Err("TypeError", 0))
             ELSE Finish(Append(netv, Req("image", i, NoHeaders)), filesv, resultv,
                         "image", "none", NoError)
        ELSE ScrapeVideo(p, m, netv, filesv, resultv)

\* lines 167-193
ScrapeAfterParse(p, m, netv) ==
    /\ dirCreated' = TRUE
    /\ ScrapeImage(p, m, netv,
                   IF SelectsText(m) THEN {TextFile(p)} ELSE {},
                   {"title", "selftext"} \cup (IF SelectsText(m) THEN {"textPath"} ELSE {}))

\* lines 40-58, up to the await of the media fetch, or line 65
DownloadAfterParse(p, netv) ==
    /\ dirCreated' = TRUE
    /\ LET t == DownloadTarget(p)
           u == IF t = "image" THEN ImageUrlOf(p) ELSE getRedditVideoUrl(p)
       IN  IF t = "none"
           THEN Finish(netv, files, result, "done", "undefined", NoError)
           ELSE IF ~ParseURL(u).ok
           THEN Finish(netv, files, result, "error", "none", Err("TypeError", 0))
           ELSE Finish(Append(netv, Req(t, u, NoHeaders)), files, result, t, "none", NoError)

\* lines 34-38 and 161-165, then the rest of the function up to its next await
AfterMeta(st, b, netv) ==
    IF ~ResOk(st)
    THEN /\ Finish(Append(netv, Resp("meta", st, "unread")), files, result,
                   "error", "none", Err("failed request", st))
         /\ UNCHANGED <<post, dirCreated>>
    ELSE IF b.shape = "throws"
    THEN /\ Finish(Append(netv, Resp("meta", st, b.shape)), files, result,
                   "error", "none", Err("TypeError", 0))
         /\ UNCHANGED <<post, dirCreated>>
    ELSE IF b.shape = "nopost"
    THEN /\ Finish(Append(netv, Resp("meta", st, b.shape)), files, result,
                   "error", "none", Err("no post data found", 0))
         /\ UNCHANGED <<post, dirCreated>>
    ELSE LET netr == Append(netv, Resp("meta", st, b.shape))
             p == [b.post EXCEPT !.from = Len(netr)]
         IN  /\ post' = p
             /\ IF fn = "scrape"
                THEN ScrapeAfterParse(p, EffectiveMode(mode), netr)
                ELSE DownloadAfterParse(p, netr)

\* lines 19-29 and 148-156
StartCall ==
    LET t == Trim(inputUrl)
        jsonUrl == withRawJsonParam(ensureJsonSuffix(t))
    IN  /\ pc = "start"
        /\ IF t = <<>>
           THEN Finish(net, files, result, "error", "none",
                       Err("A Reddit post URL is required", 0))
           ELSE IF jsonUrl = Invalid
           THEN Finish(net, files, result, "error", "none", Err("TypeError", 0))
           ELSE Finish(Append(net, Req("meta", jsonUrl, defaultHeaders)), files, result,
                       "meta1", "none", NoError)
        /\ UNCHANGED <<fn, mode, inputUrl, post, dirCreated, urlVars, renderVars>>

FetchRejected(kind) ==
    /\ Finish(Append(net, Rejected(kind)), files, result, "error", "none",
              Err("fetch failed", 0))
    /\ UNCHANGED <<post, dirCreated>>

\* lines 27-32 and 156-160: the first metadata response
MetaFirst ==
    /\ pc = "meta1"
    /\ \/ FetchRejected("meta")
       \/ \E st \in Statuses :
            IF NeedsFallback(st)
            THEN /\ Finish(net \o <<Resp("meta", st, "unread"),
                                    Req("meta", switchSubdomain(net[1].url), defaultHeaders)>>,
                           files, result, "meta2", "none", NoError)
                 /\ UNCHANGED <<post, dirCreated>>
            ELSE \E b \in Bodies : AfterMeta(st, b, net)
    /\ UNCHANGED <<fn, mode, inputUrl, urlVars, renderVars>>

\* the response to the retry
MetaSecond ==
    /\ pc = "meta2"
    /\ \/ FetchRejected("meta")
       \/ \E st \in Statuses, b \in Bodies : AfterMeta(st, b, net)
    /\ UNCHANGED <<fn, mode, inputUrl, urlVars, renderVars>>

ScrapeStart      == fn = "scrape" /\ StartCall
ScrapeMetaFirst  == fn = "scrape" /\ MetaFirst
ScrapeMetaSecond == fn = "scrape" /\ MetaSecond

\* lines 204-211, then on to the video and the comments
ScrapeImageResponse ==
    /\ fn = "scrape" /\ pc = "image"
    /\ \/ FetchRejected("image")
       \/ \E st \in Statuses :
            /\ IF ResOk(st)
               THEN ScrapeVideo(post, EffectiveMode(mode), Append(net, Resp("image", st, "bytes")),
                                files \cup {MediaFile("image")},
                                result \cup {"imagePath", "imageUrl"})
               ELSE ScrapeVideo(post, EffectiveMode(mode), Append(net, Resp("image", st, "unread")),
                                files, result)
            /\ UNCHANGED <<post, dirCreated>>
    /\ UNCHANGED <<fn, mode, inputUrl, urlVars, renderVars>>

\* lines 220-227, then on to the comments
ScrapeVideoResponse ==
    /\ fn = "scrape" /\ pc = "video"
    /\ \/ FetchRejected("video")
       \/ \E st \in Statuses :
            /\ IF ResOk(st)
               THEN ScrapeComments(post, EffectiveMode(mode), Append(net, Resp("video", st, "bytes")),
                                   files \cup {MediaFile("video")},
                                   result \cup {"videoPath", "videoUrl"})
               ELSE ScrapeComments(post, EffectiveMode(mode), Append(net, Resp("video", st, "unread")),
                                   files, result)
            /\ UNCHANGED <<post, dirCreated>>
    /\ UNCHANGED <<fn, mode, inputUrl, urlVars, renderVars>>

DownloadStart      == fn = "download" /\ StartCall
DownloadMetaFirst  == fn = "download" /\ MetaFirst
DownloadMetaSecond == fn = "download" /\ MetaSecond

\* lines 47-51 (image) and 58-62 (video)
DownloadMediaResponse(kind) ==
    /\ fn = "download" /\ pc = kind
    /\ \/ FetchRejected(kind)
       \/ \E st \in Statuses :
            /\ IF ResOk(st)
               THEN Finish(Append(net, Resp(kind, st, "bytes")), files \cup {MediaFile(kind)},
                           result, "done", "path", NoError)
               ELSE Finish(Append(net, Resp(kind, st, "unread")), files, result,
                           "error", "none", Err("failed " \o kind \o " request", st))
            /\ UNCHANGED <<post, dirCreated>>
    /\ UNCHANGED <<fn, mode, inputUrl, urlVars, renderVars>>

DownloadImageResponse == DownloadMediaResponse("image")
DownloadVideoResponse == DownloadMediaResponse("video")

Init ==
    /\ fn \in {"scrape", "download"}
    /\ mode \in (IF fn = "scrape" THEN ModeInputs ELSE {"absent"})
    /\ inputUrl \in InputUrls
    /\ pc = "start" /\ net = <<>> /\ post = NoPost /\ dirCreated = FALSE
    /\ files = {} /\ result = {} /\ returned = "none" /\ error = NoError
    /\ UrlIdle /\ RenderIdle

Next ==
    \/ ScrapeStart \/ ScrapeMetaFirst \/ ScrapeMetaSecond
    \/ ScrapeImageResponse \/ ScrapeVideoResponse
    \/ DownloadStart \/ DownloadMetaFirst \/ DownloadMetaSecond
    \/ DownloadImageResponse \/ DownloadVideoResponse

Spec == Init /\ [][Next]_vars

(***************************************************************************)
(* Claims about the URL functions.                                         *)
(***************************************************************************)
RECURSIVE Count(_, _)
Count(s, tok) ==
    IF s = <<>> THEN 0 ELSE (IF Head(s) = tok THEN 1 ELSE 0) + Count(Tail(s), tok)

StripSlash(path) ==
    IF EndsWith(path, "/") THEN SubSeq(path, 1, Len(path) - 1) ELSE path

\* C7 (as claimed): a URL without fragment whose path does not end with
\* .json, with or without a query string, is normalized to a URL whose path is the input path with
\* exactly one .json appended, placed before the query string, and whose
\* query keeps every component of the input query verbatim (raw_json=1 may
\* be added after them) and whose fragment is the input's.
C7_NormalizeAppendsJsonBeforeQuery ==
    LET in  == ParseURL(uUrl)
        out == ParseURL(uOut)
    IN  (uPc = "normalized" /\ ~EndsWith(in.pathname, ".json") /\ in.hash = <<>>) =>
            /\ uOut # Invalid
            /\ out.ok
            /\ out.hostname = in.hostname
            /\ out.pathname = Append(StripSlash(in.pathname), ".json")
            /\ Count(out.pathname, ".json") = Count(in.pathname, ".json") + 1
            /\ \/ out.search = in.search
               \/ out.search = <<"?", "raw_json=1">> /\ Len(in.search) <= 1
               \/ out.search = in.search \o <<"&", "raw_json=1">>
            /\ out.hash = in.hash

\* the extension of the URL's path: the last token of the parsed pathname
PathExtIsImage(url) ==
    LET u == ParseURL(url)
    IN  u.ok /\ LowerExt(Last(u.pathname)) \in ImageExts

\* C8 (as claimed): a URL is classified as an image exactly when the
\* extension of its path is jpg, jpeg, png or gif in any letter case, the
\* query string and the fragment being ignored.
C8_ImageIffPathExtension ==
    uPc = "classified" => (uIsImage <=> PathExtIsImage(uUrl))

(***************************************************************************)
(* Claims about formatCommentsFile.  A node of a listing is addressed by   *)
(* its path: the index of its ancestor in the top-level listing, ...,      *)
(* its own index among its siblings.                                       *)
(***************************************************************************)
RECURSIVE ItemAt(_, _)
ItemAt(items, path) ==
    IF Len(path) = 1 THEN items[path[1]]
    ELSE ItemAt(items[path[1]].replies.children, Tail(path))

RECURSIVE PathExists(_, _)
PathExists(items, path) ==
    /\ path # <<>>
    /\ path[1] \in DOMAIN items
    /\ Len(path) > 1 => PathExists(items[path[1]].replies.children, Tail(path))

NodePaths(items) ==
    {p \in SeqsUpTo(1..MaxNodes, MaxNodes) : PathExists(items, p)}

\* a node is rendered when it and all its ancestors are of the comment kind
RenderedPaths(items) ==
    {p \in NodePaths(items) :
        \A n \in 1..Len(p) : ItemAt(items, SubSeq(p, 1, n)).kind = "t1"}

\* depth-first pre-order on paths: an ancestor before its descendants,
\* siblings (and their subtrees) in listing order
PreOrderBefore(p, q) ==
    \/ Len(p) < Len(q) /\ SubSeq(q, 1, Len(p)) = p
    \/ \E i \in 1..Len(p) :
          /\ i <= Len(q)
          /\ SubSeq(p, 1, i - 1) = SubSeq(q, 1, i - 1)
          /\ p[i] < q[i]

RECURSIVE InPreOrder(_)
InPreOrder(paths) ==
    IF paths = {} THEN <<>>
    ELSE LET first == CHOOSE p \in paths : \A q \in paths \ {p} : PreOrderBefore(p, q)
         IN  <<first>> \o InPreOrder(paths \ {first})

Spaces(n) == [i \in 1..n |-> " "]

\* what the claim says one comment node at depth d produces
ClaimedBlock(item, d) ==
    LET author == IF item.hasData /\ item.author # ""
                  THEN <<"u/", item.author>> ELSE <<"[deleted]">>
        score  == IF item.hasData /\ item.score.num THEN item.score.val ELSE "0"
        body   == IF item.hasData THEN item.body ELSE <<>>
        isBreak(t) == t \in {"<CRLF>", "<CR>", "<LF>"}
        breaks == {i \in DOMAIN body : isBreak(body[i])}
        \* the k-th body line: the tokens between the (k-1)-th and k-th break
        starts == {0} \cup breaks
        lineFrom(b) == LET nxt == {j \in breaks : j > b}
                           e == IF nxt = {} THEN Len(body) + 1
                                ELSE CHOOSE j \in nxt : \A j2 \in nxt : j <= j2
                       IN  SubSeq(body, b + 1, e - 1)
        RECURSIVE linesFrom(_)
        linesFrom(S) ==
            IF S = {} THEN <<>>
            ELSE LET b == CHOOSE x \in S : \A y \in S : x <= y
                 IN  <<Spaces(2 * d + 2) \o lineFrom(b)>> \o linesFrom(S \ {b})
    IN  <<Spaces(2 * d) \o <<"- ">> \o author \o <<" [", score, "]">>>>
        \o (IF body = <<>> THEN <<>> ELSE linesFrom(starts))
        \o << <<>> >>

RECURSIVE ClaimedBlocks(_, _)
ClaimedBlocks(items, paths) ==
    IF paths = <<>> THEN <<>>
    ELSE ClaimedBlock(ItemAt(items, Head(paths)), Len(Head(paths)) - 1)
         \o ClaimedBlocks(items, Tail(paths))

\* the returned text split back into its lines
TextLines(text) == SplitLines(text)

\* C9: whenever formatCommentsFile returns, the lines after the two header
\* lines are the blocks of the rendered nodes in depth-first pre-order: a
\* comment node at depth d gives its author line indented 2*d spaces, its
\* body lines indented 2*d+2 spaces, one blank line, then its replies at
\* depth d+1; a node that is not a comment, and every node under it, gives
\* no line.
C9_CommentsInPreOrder ==
    rPc = "done" =>
        LET items == rListing.items
            lines == TextLines(rText)
        IN  /\ Len(lines) >= 2
            /\ lines[1] = <<"Comments for: ", Title>>
            /\ lines[2] = <<>>
            /\ SubSeq(lines, 3, Len(lines))
                 = ClaimedBlocks(items, InPreOrder(RenderedPaths(items)))

\* C9 witness: a rendered listing in which a comment with a body of two
\* lines has a rendered reply, and which holds a node that is not rendered
C9_Witness ==
    /\ rPc = "done"
    /\ \E p \in RenderedPaths(rListing.items) :
          /\ Len(p) = 2
          /\ Len(ItemAt(rListing.items, SubSeq(p, 1, 1)).body) = 3
    /\ NodePaths(rListing.items) # RenderedPaths(rListing.items)

\* C10 (as claimed): formatCommentsFile returns text for every listing, a
\* malformed or absent one included.
C10_RenderNeverFails ==
    rPc # "error"

(***************************************************************************)
(* Claims about scrape and download.                                       *)
(***************************************************************************)
RequestsOf(kinds) == {i \in DOMAIN net : net[i].ev = "request" /\ net[i].kind \in kinds}
ResponsesOf(kinds) == {i \in DOMAIN net : net[i].ev = "response" /\ net[i].kind \in kinds}
RejectionsOf(kinds) == {i \in DOMAIN net : net[i].ev = "rejected" /\ net[i].kind \in kinds}
MetaRequests  == RequestsOf({"meta"})
MetaResponses == ResponsesOf({"meta"})
MediaRequests == RequestsOf({"image", "video"})
Min(S) == CHOOSE x \in S : \A y \in S : x <= y
Max(S) == CHOOSE x \in S : \A y \in S : x >= y
Success(status) == status >= 200 /\ status <= 299
ArtsWritten == {f.art : f \in files}

\* C1: the post's JSON endpoint is requested at most twice; there is a second
\* request exactly when the first response had status 403; the second goes to
\* the first URL with the hostname prefix swapped (old. <-> www., any other
\* hostname unchanged) and carries the same headers; the response parsed or
\* reported is the last one received, and after a second response nothing
\* more is requested from the endpoint.
C1_AtMostOneFallback ==
    /\ Cardinality(MetaRequests) <= 2
    /\ Cardinality(MetaRequests) = 2
         <=> (MetaResponses # {} /\ net[Min(MetaResponses)].status = 403)
    /\ Cardinality(MetaRequests) = 2 =>
         LET r1 == net[Min(MetaRequests)]
             r2 == net[Max(MetaRequests)]
             u1 == ParseURL(r1.url)
             u2 == ParseURL(r2.url)
         IN  /\ Min(MetaRequests) < Min(MetaResponses)
             /\ Min(MetaResponses) < Max(MetaRequests)
             /\ r2.headers = r1.headers
             /\ u2.ok /\ u2.scheme = u1.scheme /\ u2.pathname = u1.pathname
             /\ u2.search = u1.search /\ u2.hash = u1.hash
             /\ Tail(u2.hostname) = Tail(u1.hostname)
             /\ Head(u2.hostname) =
                  (CASE Head(u1.hostname) = "old." -> "www."
                     [] Head(u1.hostname) = "www." -> "old."
                     [] OTHER -> Head(u1.hostname))
             /\ Cardinality(MetaResponses) = 2 => pc # "meta2"
    /\ post.present => post.from = Max(MetaResponses)
    /\ error.msg = "failed request" => error.status = net[Max(MetaResponses)].status

\* C1 witness: a blocked first request, a retry on the other subdomain, and
\* the retry's body parsed
C1_Witness ==
    /\ Cardinality(MetaRequests) = 2
    /\ Head(ParseURL(net[Min(MetaRequests)].url).hostname) = "old."
    /\ post.present /\ post.from = Max(MetaResponses)

\* the artifact set of each recognized mode, as the specification lists them
ModeArtifacts(m) ==
    CASE m = "image"      -> {"image"}
      [] m = "video"      -> {"video"}
      [] m = "text"       -> {"text"}
      [] m = "full_media" -> {"image", "video", "text"}
      [] m = "comments"   -> {"comments"}
      [] m = "all"        -> {"image", "video", "text", "comments"}

PathField(art) == art \o "Path"

\* C2: a successful scrape in a recognized mode writes files and returns
\* paths only for the artifacts of the mode's set; textPath is present
\* exactly in text, full_media and all; commentsPath exactly in comments and
\* all; imagePath and videoPath never outside their modes; videoPath is
\* absent when the post has no video URL.
C2_ModeArtifactSets ==
    (fn = "scrape" /\ pc = "done" /\ mode \in RecognizedModes) =>
        /\ returned = "result"
        /\ ArtsWritten \subseteq ModeArtifacts(mode)
        /\ \A art \in {"image", "video", "text", "comments"} :
             PathField(art) \in result <=> art \in ArtsWritten
        /\ "textPath" \in result <=> mode \in {"text", "full_media", "all"}
        /\ "commentsPath" \in result <=> mode \in {"comments", "all"}
        /\ "imagePath" \in result => mode \in {"image", "full_media", "all"}
        /\ "videoPath" \in result => mode \in {"video", "full_media", "all"}
        /\ (post.secure_video = <<>> /\ post.media_video = <<>>) =>
             ("videoPath" \notin result /\ RequestsOf({"video"}) = {})
        /\ "text" \in ArtsWritten =>
             \E f \in files : f.art = "text" /\
                 f.content[2] = (IF post.selftext = "" THEN "(no text body)" ELSE post.selftext)

\* C2 witness: mode all on a post without video: image, text and comments
\* are produced, no video path, no error
C2_Witness ==
    /\ fn = "scrape" /\ pc = "done" /\ mode = "all"
    /\ post.secure_video = <<>> /\ post.media_video = <<>>
    /\ result = {"title", "selftext", "imagePath", "imageUrl", "textPath", "commentsPath"}

\* a media fetch of kind k has failed: a response without success status, or
\* a request that raised an error
MediaFetchFailed(k) ==
    \/ \E i \in ResponsesOf({k}) : ~Success(net[i].status)
    \/ RejectionsOf({k}) # {}

\* C3 (as claimed): in scrape, after the metadata was parsed, a failed image
\* or video fetch, whether by a status without success or by a request that
\* raises, never fails the call, and the result has no path, no URL and no
\* file for the failed artifact.  (Posts whose comment listing formatCommentsFile
\* cannot render are left to C10.)
C3_MediaFailureNeverFailsScrape ==
    \A k \in {"image", "video"} :
        (/\ fn = "scrape" /\ post.present
         /\ ~formatCommentsFile(Title, post.comments).threw
         /\ MediaFetchFailed(k)) =>
            /\ pc # "error"
            /\ k \notin ArtsWritten
            /\ PathField(k) \notin result /\ (k \o "Url") \notin result

EmptyInput == Trim(inputUrl) = <<>>
FinalMetaStatusBad ==
    /\ MetaResponses # {} /\ pc # "meta2"
    /\ ~Success(net[Max(MetaResponses)].status)
PostRecordAbsent ==
    MetaResponses # {} /\ net[Max(MetaResponses)].body \in {"nopost", "throws"}

\* C4: a call that fails at the metadata stage (URL empty after trimming, no
\* success status after the single fallback, post record absent) ends in an
\* error, returns nothing, has issued no media request, has not created the
\* output directory and has written no file; and a media request is only
\* ever issued after a metadata response was received and parsed.
C4_MetadataFailureIsTerminal ==
    /\ ((pc # "start" /\ EmptyInput) \/ FinalMetaStatusBad \/ PostRecordAbsent) =>
          /\ pc = "error" /\ returned = "none" /\ error # NoError
          /\ MediaRequests = {} /\ ~dirCreated /\ files = {} /\ ~post.present
    /\ \A i \in MediaRequests :
          /\ post.present /\ post.from < i
          /\ net[post.from].ev = "response" /\ net[post.from].kind = "meta"
          /\ Success(net[post.from].status) /\ net[post.from].body = "post"

\* C4 witness: the retry after a 403 is answered without success
C4_Witness ==
    /\ Cardinality(MetaRequests) = 2 /\ FinalMetaStatusBad /\ pc = "error"

\* what a scrape in mode image does, from the parse on
ImageOnlyBehaviour ==
    LET i == IF post.url_overridden_by_dest # <<>> THEN post.url_overridden_by_dest
             ELSE post.url
        wanted == i # <<>> /\ IsImageUrl(i)
        fetched == \E n \in ResponsesOf({"image"}) : Success(net[n].status)
    IN  post.present =>
          /\ RequestsOf({"video"}) = {}
          /\ RequestsOf({"image"}) # {} <=> (wanted /\ ParseURL(i).ok)
          /\ \A n \in RequestsOf({"image"}) : net[n].url = i
          /\ files = (IF fetched THEN {MediaFile("image")} ELSE {})
          /\ pc = "done" =>
               /\ returned = "result"
               /\ result = {"title", "selftext"}
                           \cup (IF fetched THEN {"imagePath", "imageUrl"} ELSE {})
          /\ pc = "error" <=> (RejectionsOf({"image"}) # {} \/ (wanted /\ ~ParseURL(i).ok))

C6_DownloadSingleMediaFatal ==
    fn = "download" =>
        LET i == IF post.url_overridden_by_dest # <<>> THEN post.url_overridden_by_dest
                 ELSE post.url
            v == IF post.secure_video # <<>> THEN post.secure_video ELSE post.media_video
            isImage == i # <<>> /\ IsImageUrl(i)
        IN  /\ Cardinality(MediaRequests) <= 1
            /\ ~post.present => MediaRequests = {}
            /\ post.present =>
                 /\ \A n \in MediaRequests :
                      /\ net[n].kind = "image" <=> isImage
                      /\ net[n].kind = "video" <=> (~isImage /\ v # <<>>)
                      /\ net[n].url = (IF isImage THEN i ELSE v)
                 /\ (isImage /\ ParseURL(i).ok) => RequestsOf({"image"}) # {}
                 /\ (~isImage /\ v # <<>>) => RequestsOf({"video"}) # {}
                 /\ (~isImage /\ v = <<>>) =>
                      (pc = "done" /\ returned = "undefined" /\ files = {})
            /\ (\E n \in ResponsesOf({"image", "video"}) : ~Success(net[n].status)) =>
                 (pc = "error" /\ returned = "none" /\ files = {}
                    /\ error.status = net[Max(ResponsesOf({"image", "video"}))].status)
            /\ returned = "path" <=>
                 (\E n \in ResponsesOf({"image", "video"}) :
                     Success(net[n].status) /\ files = {MediaFile(net[n].kind)})

\* C6 witness: the one media request of download answered without success
C6_Witness ==
    /\ fn = "download" /\ pc = "error" /\ post.present
    /\ \E n \in ResponsesOf({"image", "video"}) : ~Success(net[n].status)

=============================================================================
